---- MODULE Spec2Model ----
(***************************************************************************)
(* A model of NEODatabase (database.py): the constructor that links        *)
(* near-Earth objects and close approaches and builds the two indexes, the *)
(* two point lookups, and the query generator.                             *)
(*                                                                         *)
(* Objects are identified by their position in the input collections: neo  *)
(* o is neos[o], close approach e is approaches[e].  A Python string is a   *)
(* sequence of one-character strings; None (as a name or a lookup key) is  *)
(* the one-element sequence None, which is no string over Chars.           *)
(***************************************************************************)
EXTENDS Integers, Sequences, FiniteSets, TLC

\* ------------------------------------------------------------- bounds
MaxNeos == 2
MaxEvents == 2
MaxFilters == 2

\* ------------------------------------------------------------- strings
Chars == {"a", "A", "b", "B", "c", "C", "e", "E", "1", "2", "3"}

None == <<"None">>

LowerChar(c) ==
    CASE c = "A" -> "a"
      [] c = "B" -> "b"
      [] c = "C" -> "c"
      [] c = "E" -> "e"
      [] OTHER -> c

UpperChar(c) ==
    CASE c = "a" -> "A"
      [] c = "b" -> "B"
      [] c = "c" -> "C"
      [] c = "e" -> "E"
      [] OTHER -> c

\* str.lower(), character by character
Lower(s) == [k \in 1..Len(s) |-> LowerChar(s[k])]

\* str.upper(), used by callers only
Upper(s) == [k \in 1..Len(s) |-> UpperChar(s[k])]

\* Python truthiness of a name: None and "" are falsy
Truthy(s) == s # None /\ s # <<>>

\* ------------------------------------------------------------- inputs
Designations == {<<"a", "1">>, <<"A", "1">>, <<"b", "2">>}
Names == {None, <<>>, <<"e">>, <<"E">>}
EventKeys == {<<"A", "1">>, <<"c", "3">>}

NeoRecords == [designation : Designations, name : Names]
EventRecords == [designation : EventKeys]

SeqsUpTo(S, n) == UNION {[1..k -> S] : k \in 0..n}

\* keys a caller may pass to the lookups
DesignationKeys ==
    Designations \cup {Upper(d) : d \in Designations} \cup {<<"c", "3">>, <<>>}
NameKeys == Names \cup {<<"c">>}

\* ------------------------------------------------------------- state
VARIABLES
    neos,                 \* the neos collection: the objects' own fields
    approaches,           \* the approaches collection (self._approaches)
    neoApproaches,        \* neo.approaches of every neo: a list of approaches
    approachNeo,          \* approach.neo of every approach: a neo, or 0 for None
    neos_by_designation,  \* dict: lowercase designation -> neo
    neos_by_name,         \* dict: lowercase name -> neo
    pc,                   \* where the constructor is: "link", "index", "ready"
    idx,                  \* the constructor's position in its current loop
    lastCall,             \* the latest lookup and what it returned
    preds,                \* the caller's predicate functions
    streams               \* the generators query() has returned

catalog == <<neos, approaches, neoApproaches, approachNeo,
             neos_by_designation, neos_by_name>>
vars == <<neos, approaches, neoApproaches, approachNeo, neos_by_designation,
          neos_by_name, pc, idx, lastCall, preds, streams>>

NeoIds == 1..Len(neos)
EventIds == 1..Len(approaches)

\* ------------------------------------------------------------- dicts
EmptyDict == <<>>

\* dict.update({k: v})
DictUpdate(d, k, v) == [x \in DOMAIN d \cup {k} |-> IF x = k THEN v ELSE d[x]]

\* dict.get(k, None); 0 stands for None
DictGet(d, k) == IF k \in DOMAIN d THEN d[k] ELSE 0

\* ------------------------------------------------------------- helpers
\* the approaches collection in iteration order, as positions
EventOrder == [k \in 1..Len(approaches) |-> k]

Range(s) == {s[k] : k \in 1..Len(s)}

\* ------------------------------------------------------------- constructor
NoCall == [op |-> "none", arg |-> <<>>, ret |-> 0, raised |-> FALSE]

InitCatalog(ns, as) ==
    /\ neos = ns
    /\ approaches = as
    /\ neoApproaches = [o \in 1..Len(ns) |-> <<>>]
    /\ approachNeo = [e \in 1..Len(as) |-> 0]
    /\ neos_by_designation = EmptyDict
    /\ neos_by_name = EmptyDict
    /\ pc = "link"
    /\ idx = 1
    /\ lastCall = NoCall
    /\ streams = <<>>

\* the filter of lines 35-39: does approach e belong to neo o
MatchesLowerOneSide(o, e) ==
    approaches[e].designation = Lower(neos[o].designation)

Matches(o, e) ==
    Lower(approaches[e].designation) = Lower(neos[o].designation)

\* approach.neo after the inner loop of lines 42-43 for neo o
LinkedNeoAll(o, e) == o

LinkedNeo(o, e) ==
    IF Matches(o, e) THEN o ELSE approachNeo[e]

\* one iteration of the loop of lines 33-43
LinkNeo ==
    /\ pc = "link"
    /\ idx <= Len(neos)
    /\ neoApproaches' = [neoApproaches EXCEPT
           ![idx] = SelectSeq(EventOrder, LAMBDA e : Matches(idx, e))]
    /\ approachNeo' = [e \in EventIds |-> LinkedNeo(idx, e)]
    /\ idx' = idx + 1
    /\ UNCHANGED <<neos, approaches, neos_by_designation, neos_by_name, pc,
                   lastCall, preds, streams>>

\* lines 45-47: the loop of lines 33-43 is over, the dicts are created
LinkDone ==
    /\ pc = "link"
    /\ idx > Len(neos)
    /\ pc' = "index"
    /\ idx' = 1
    /\ neos_by_designation' = EmptyDict
    /\ neos_by_name' = EmptyDict
    /\ UNCHANGED <<neos, approaches, neoApproaches, approachNeo, lastCall,
                   preds, streams>>

\* line 49
DesignationIndexedFirstWins(d, row) ==
    IF Lower(neos[row].designation) \in DOMAIN d THEN d
    ELSE DictUpdate(d, Lower(neos[row].designation), row)

DesignationIndexed(d, row) ==
    DictUpdate(d, Lower(neos[row].designation), row)

\* lines 50-51
NameIndexed(d, row) ==
    IF Truthy(neos[row].name)
    THEN DictUpdate(d, Lower(neos[row].name), row)
    ELSE d

\* one iteration of the loop of lines 48-51
IndexRow ==
    /\ pc = "index"
    /\ idx <= Len(neos)
    /\ neos_by_designation' = DesignationIndexed(neos_by_designation, idx)
    /\ neos_by_name' = NameIndexed(neos_by_name, idx)
    /\ idx' = idx + 1
    /\ UNCHANGED <<neos, approaches, neoApproaches, approachNeo, pc,
                   lastCall, preds, streams>>

\* the constructor returns
IndexDone ==
    /\ pc = "index"
    /\ idx > Len(neos)
    /\ pc' = "ready"
    /\ UNCHANGED <<neos, approaches, neoApproaches, approachNeo,
                   neos_by_designation, neos_by_name, idx, lastCall, preds,
                   streams>>

\* ------------------------------------------------------------- lookups
\* the outcome of a lookup: what it returns (0 for None) or that it raised
Returned(v) == [ret |-> v, raised |-> FALSE]
AttributeError == [ret |-> 0, raised |-> TRUE]

\* line 66; None has no .lower()
get_neo_by_designation_exact(designation) ==
    IF designation = None THEN AttributeError
    ELSE Returned(DictGet(neos_by_designation, designation))

get_neo_by_designation(designation) ==
    IF designation = None THEN AttributeError
    ELSE Returned(DictGet(neos_by_designation, Lower(designation)))

\* line 82; None has no .lower()
get_neo_by_name(name) ==
    IF name = None THEN AttributeError
    ELSE Returned(DictGet(neos_by_name, Lower(name)))

Called(op, arg, out) ==
    [op |-> op, arg |-> arg, ret |-> out.ret, raised |-> out.raised]

\* lines 66 and 82: what dict.get leaves of the dict it reads
DictAfterSetdefault(d, key) ==
    IF key = None THEN d
    ELSE IF Lower(key) \in DOMAIN d THEN d ELSE DictUpdate(d, Lower(key), 0)

DictAfterGet(d, key) == d

LookupByDesignation ==
    /\ pc = "ready"
    /\ \E key \in DesignationKeys \cup {None} :
           /\ lastCall' = Called("get_neo_by_designation", key,
                                 get_neo_by_designation(key))
           /\ neos_by_designation' = DictAfterGet(neos_by_designation, key)
    /\ UNCHANGED <<neos, approaches, neoApproaches, approachNeo,
                   neos_by_name, pc, idx, preds, streams>>

LookupByName ==
    /\ pc = "ready"
    /\ \E key \in NameKeys :
           /\ lastCall' = Called("get_neo_by_name", key, get_neo_by_name(key))
           /\ neos_by_name' = DictAfterGet(neos_by_name, key)
    /\ UNCHANGED <<neos, approaches, neoApproaches, approachNeo,
                   neos_by_designation, pc, idx, preds, streams>>

\* ------------------------------------------------------------- catalog spec
NoPreds == <<>>

Init ==
    /\ \E ns \in SeqsUpTo(NeoRecords, MaxNeos),
          as \in SeqsUpTo(EventRecords, MaxEvents) : InitCatalog(ns, as)
    /\ preds = NoPreds

Next ==
    \/ LinkNeo
    \/ LinkDone
    \/ IndexRow
    \/ IndexDone
    \/ LookupByDesignation
    \/ LookupByName

Spec == Init /\ [][Next]_vars

\* ------------------------------------------------------------- query
\* A predicate is an opaque function of one approach: the caller's preds[f]
\* gives, for every approach, whether f returns true, returns false or raises.
PredIds == {"p", "q"}
Outcomes == {"True", "False", "Fault"}

\* the filter collections a caller may pass: a tuple or a list of predicates
FilterCollections ==
    [kind : {"tuple", "list"}, items : SeqsUpTo(PredIds, MaxFilters)]

\* line 103: list == filters. A list never equals a tuple; two lists are
\* equal when they hold the same predicates in the same order.
PyEq(match_fil, filters) ==
    filters.kind = "list" /\ match_fil = filters.items

\* line 101, inside the loop of line 100: does the loop go on to the next
\* predicate after predicate k returned out
GoesOnBreakOnFalse(out) == out = "True"

GoesOn(out) == out # "Fault"

RECURSIVE Filtered(_, _, _, _, _)
\* lines 99-102 for approach e, from predicate k on: the predicates applied
\* (calls), those that returned true (match_fil), and whether one raised
Filtered(e, items, k, match_fil, calls) ==
    IF k > Len(items)
    THEN [match_fil |-> match_fil, calls |-> calls, fault |-> FALSE]
    ELSE LET out == preds[items[k]][e]
             called == Append(calls, <<e, k>>)
             matched == IF out = "True" THEN Append(match_fil, items[k])
                        ELSE match_fil
         IN  IF GoesOn(out)
             THEN Filtered(e, items, k + 1, matched, called)
             ELSE [match_fil |-> matched, calls |-> called,
                   fault |-> out = "Fault"]

\* a generator as query() returns it: no code of the body has run yet
NewStream(filters) ==
    [filters |-> filters, pos |-> 1, state |-> "suspended",
     yielded |-> <<>>, calls |-> <<>>]

RECURSIVE Resumed(_)
\* next() on a suspended generator: the loop of line 98 runs from approach
\* g.pos on until it yields (line 104), runs out of approaches, or a
\* predicate raises; g.pos is then the approach to visit next, or the
\* approach whose predicate raised
Resumed(g) ==
    IF g.pos > Len(approaches)
    THEN [g EXCEPT !.state = "exhausted"]
    ELSE LET r == Filtered(g.pos, g.filters.items, 1, <<>>, <<>>)
             seen == [g EXCEPT !.calls = g.calls \o r.calls]
         IN  IF r.fault
             THEN [seen EXCEPT !.state = "raised"]
             ELSE IF PyEq(r.match_fil, g.filters)
             THEN [seen EXCEPT !.pos = g.pos + 1,
                               !.yielded = Append(g.yielded, g.pos)]
             ELSE Resumed([seen EXCEPT !.pos = g.pos + 1])

\* query(filters): lines 84-104 up to the first next()
Query ==
    /\ pc = "ready"
    /\ streams = <<>>
    /\ \E filters \in FilterCollections :
           streams' = <<NewStream(filters)>>
    /\ UNCHANGED <<neos, approaches, neoApproaches, approachNeo,
                   neos_by_designation, neos_by_name, pc, idx, lastCall,
                   preds>>

\* query(filters) called again while the caller holds the first generator
QueryAgain ==
    /\ pc = "ready"
    /\ Len(streams) = 1
    /\ \E filters \in FilterCollections :
           streams' = Append(streams, NewStream(filters))
    /\ UNCHANGED <<neos, approaches, neoApproaches, approachNeo,
                   neos_by_designation, neos_by_name, pc, idx, lastCall,
                   preds>>

\* next(g) on one of the generators
Advance ==
    /\ pc = "ready"
    /\ \E s \in DOMAIN streams :
           /\ streams[s].state = "suspended"
           /\ streams' = [streams EXCEPT ![s] = Resumed(streams[s])]
    /\ UNCHANGED <<neos, approaches, neoApproaches, approachNeo,
                   neos_by_designation, neos_by_name, pc, idx, lastCall,
                   preds>>

\* ------------------------------------------------------------- query spec
\* One generator, over every table of predicate outcomes.
QueryNeos == {<<[designation |-> <<"a", "1">>, name |-> <<"e">>]>>}
QueryEvents == SeqsUpTo(EventRecords, MaxEvents)

InitQuery ==
    \E ns \in QueryNeos, as \in QueryEvents :
        /\ InitCatalog(ns, as)
        /\ preds \in [PredIds -> [1..Len(as) -> Outcomes]]

NextQuery ==
    \/ LinkNeo
    \/ LinkDone
    \/ IndexRow
    \/ IndexDone
    \/ Query
    \/ Advance

SpecQuery == InitQuery /\ [][NextQuery]_vars

\* ------------------------------------------------------------- caller spec
\* A caller that mixes lookups with two generators advanced in any order.
\* Its predicates read the approach: p raises on an approach whose key is
\* none of the catalog's (its .neo is None), q returns false on it.
Orphan(a) == a.designation = <<"c", "3">>

CallerPreds(as) ==
    [f \in PredIds |->
        [e \in 1..Len(as) |->
            IF ~Orphan(as[e]) THEN "True"
            ELSE IF f = "p" THEN "Fault" ELSE "False"]]

\* one approach of the catalog's neo, then approaches of no neo
CallerEvents ==
    {[e \in 1..n |-> [designation |->
                        IF e = 1 THEN <<"A", "1">> ELSE <<"c", "3">>]] :
        n \in 0..MaxEvents}

InitCaller ==
    \E ns \in QueryNeos, as \in CallerEvents :
        /\ InitCatalog(ns, as)
        /\ preds = CallerPreds(as)

NextCaller ==
    \/ LinkNeo
    \/ LinkDone
    \/ IndexRow
    \/ IndexDone
    \/ LookupByDesignation
    \/ LookupByName
    \/ Query
    \/ QueryAgain
    \/ Advance

SpecCaller == InitCaller /\ [][NextCaller]_vars

\* ------------------------------------------------------------- claims
Ready == pc = "ready"

SameKey(s, t) == Lower(s) = Lower(t)

UniqueDesignations ==
    \A o1, o2 \in NeoIds :
        SameKey(neos[o1].designation, neos[o2].designation) => o1 = o2

UniqueNames ==
    \A o1, o2 \in NeoIds :
        /\ Truthy(neos[o1].name)
        /\ Truthy(neos[o2].name)
        /\ SameKey(neos[o1].name, neos[o2].name)
        => o1 = o2

Increasing(s) == \A j, k \in 1..Len(s) : j < k => s[j] < s[k]

\* k is s in some letter case: the same characters up to upper/lower case
CaseVariant(k, s) ==
    /\ Len(k) = Len(s)
    /\ \A n \in 1..Len(s) :
           k[n] \in {s[n], UpperChar(s[n]), LowerChar(s[n])}

\* C4: after construction, approach E is in O.approaches exactly when the
\* lowercased key of E equals the lowercased designation of O, and
\* O.approaches keeps the input order of the approaches, each once.
C4_LinkingComplete ==
    Ready =>
        \A o \in NeoIds :
            /\ \A e \in EventIds :
                   e \in Range(neoApproaches[o])
                   <=> SameKey(approaches[e].designation, neos[o].designation)
            /\ Increasing(neoApproaches[o])

C4_Witness ==
    /\ Ready
    /\ \E o \in NeoIds, e1, e2 \in EventIds :
           /\ neoApproaches[o] = <<e1>>
           /\ approaches[e1].designation # neos[o].designation
           /\ ~SameKey(approaches[e2].designation, neos[o].designation)

\* C5: with case-insensitively unique designations, after construction an
\* approach either has a matching neo (then .neo is that neo and the neo
\* lists the approach) or has none (then .neo is None, no neo lists it, and
\* it is still in the approaches collection).
C5_LinkedOrOrphan ==
    (Ready /\ UniqueDesignations) =>
        \A e \in EventIds :
            LET match == {o \in NeoIds :
                    SameKey(approaches[e].designation, neos[o].designation)}
            IN  IF match # {}
                THEN /\ approachNeo[e] \in match
                     /\ e \in Range(neoApproaches[approachNeo[e]])
                ELSE /\ approachNeo[e] = 0
                     /\ \A o \in NeoIds : e \notin Range(neoApproaches[o])
                     /\ e \in DOMAIN approaches

C5_Witness ==
    /\ Ready
    /\ UniqueDesignations
    /\ Len(neos) = 2
    /\ \E e1, e2 \in EventIds :
           /\ approachNeo[e1] = 2
           /\ approachNeo[e2] = 0
           /\ neoApproaches[2] = <<e1>>

C7_EmptyNameNotFound ==
    (/\ Ready
     /\ lastCall.op = "get_neo_by_name"
     /\ lastCall.arg \in {<<>>, None})
    => (lastCall.ret = 0 /\ ~lastCall.raised)

Items(g) == g.filters.items

\* every predicate of the collection returns true for approach e
AllTrue(items, e) == \A k \in 1..Len(items) : preds[items[k]][e] = "True"

FaultsAt(items, e) == \E k \in 1..Len(items) : preds[items[k]][e] = "Fault"

FirstFault(items, e) ==
    CHOOSE k \in 1..Len(items) :
        /\ preds[items[k]][e] = "Fault"
        /\ \A j \in 1..(k - 1) : preds[items[j]][e] # "Fault"

\* every predicate 1..n applied to each of the approaches 1..m, in order
AllCalls(m, n) ==
    [j \in 1..(m * n) |-> <<((j - 1) \div n) + 1, ((j - 1) % n) + 1>>]

\* predicates 1..upto applied to approach e, in order
CallsAt(e, upto) == [k \in 1..upto |-> <<e, k>>]

IsPrefix(s, t) == Len(s) <= Len(t) /\ \A k \in 1..Len(s) : s[k] = t[k]

\* C1: query(()) yields every approach of the collection, once each, in
\* the collection's order, approaches of no neo included.
C1_NoFiltersYieldAll ==
    \A s \in DOMAIN streams :
        (/\ streams[s].filters = [kind |-> "tuple", items |-> <<>>]
         /\ streams[s].state = "exhausted")
        => streams[s].yielded = EventOrder

\* C2: for a tuple or a list of predicates of any size, an approach is
\* yielded exactly when every predicate returns true for it.
C2_YieldedIffAllTrue ==
    \A s \in DOMAIN streams :
        streams[s].state = "exhausted" =>
            \A e \in EventIds :
                e \in Range(streams[s].yielded)
                <=> AllTrue(Items(streams[s]), e)

\* C3: the approaches query(P1 \cup P2) yields are those query(P1) and
\* query(P2) both yield.
C3_UnionIsIntersection ==
    \A s1, s2, s3 \in DOMAIN streams :
        (/\ streams[s1].state = "exhausted"
         /\ streams[s2].state = "exhausted"
         /\ streams[s3].state = "exhausted"
         /\ Range(Items(streams[s3]))
                = Range(Items(streams[s1])) \cup Range(Items(streams[s2])))
        => Range(streams[s3].yielded)
               = Range(streams[s1].yielded) \cap Range(streams[s2].yielded)

\* C8: after construction no lookup and no query step changes the
\* approaches collection, any neo's approaches, any approach's neo or
\* either index, also with two generators advanced in any order; and a
\* second query with the same predicates ends as the first did, with the
\* same sequence.
CatalogKept == Ready => catalog' = catalog

SameAgain ==
    \A s1, s2 \in DOMAIN streams :
        (/\ streams[s1].filters = streams[s2].filters
         /\ streams[s1].state # "suspended"
         /\ streams[s2].state # "suspended")
        => /\ streams[s1].yielded = streams[s2].yielded
           /\ streams[s1].state = streams[s2].state

C8_ReadOnlyAfterConstruction == [][CatalogKept]_vars /\ []SameAgain

C8_Witness ==
    /\ Ready
    /\ lastCall.op = "get_neo_by_name"
    /\ lastCall.ret = 0
    /\ Len(streams) = 2
    /\ streams[1].filters = streams[2].filters
    /\ streams[1].state = "exhausted"
    /\ streams[2].state = "exhausted"
    /\ Len(streams[2].yielded) > 0
    /\ approachNeo[1] = 1

\* C9: a generator reaches the approaches in collection order, applies
\* every predicate to each in predicate order, also after one returned
\* false; a predicate's fault ends the generator at the approach that
\* raised it, at the step that reaches it, even after an earlier predicate
\* returned false for that approach; what was yielded before stays.
EveryCallMade(g) ==
    LET n == Len(Items(g))
    IN  /\ \A e \in 1..(g.pos - 1) : ~FaultsAt(Items(g), e)
        /\ IF g.state = "raised"
           THEN /\ g.pos \in EventIds
                /\ FaultsAt(Items(g), g.pos)
                /\ g.calls = AllCalls(g.pos - 1, n)
                                 \o CallsAt(g.pos, FirstFault(Items(g), g.pos))
           ELSE g.calls = AllCalls(g.pos - 1, n)
        /\ g.state = "exhausted" => g.pos = Len(approaches) + 1
        /\ g.state = "suspended" /\ g.pos > 1 =>
               /\ g.yielded # <<>>
               /\ g.yielded[Len(g.yielded)] = g.pos - 1
        /\ Increasing(g.yielded)

YieldedKept ==
    \A s \in DOMAIN streams :
        /\ s \in DOMAIN streams'
        /\ IsPrefix(streams[s].yielded, streams'[s].yielded)
        /\ IsPrefix(streams[s].calls, streams'[s].calls)

C9_AllPredicatesApplied ==
    /\ [](\A s \in DOMAIN streams : EveryCallMade(streams[s]))
    /\ [][YieldedKept]_vars

C9_Witness ==
    /\ Len(streams) = 1
    /\ streams[1].filters = [kind |-> "list", items |-> <<"q", "p">>]
    /\ streams[1].state = "raised"
    /\ streams[1].pos = 2
    /\ streams[1].yielded = <<1>>
    /\ preds["q"][2] = "False"
    /\ streams[1].calls = <<<<1, 1>>, <<1, 2>>, <<2, 1>>, <<2, 2>>>>

====
